---- MODULE Spec2Model ----
(***************************************************************************)
(* Model of indexed.py (class IndexedFile): a file of fixed-size records   *)
(* chained by next-record words, a free list, and a key index written      *)
(* after the record area.  The file is modelled byte by byte: a sequence   *)
(* of bytes 0..255, byte offset o of the file being element o+1.           *)
(*                                                                         *)
(* A 32-bit word read from the file ("!L") is held in two's complement:    *)
(* an unsigned value v >= 2^31 is held as v - 2^32.  The code only tests   *)
(* words for equality or uses them as record numbers, and a record number  *)
(* >= 2^31 addresses bytes far past the end of the file, so the two        *)
(* readings give the same outcomes.                                        *)
(***************************************************************************)
EXTENDS Integers, Sequences, FiniteSets, TLC

\* ---------------------------------------------------------------- bounds
MaxKey == 2
MaxLen == 5
MaxHint == 3
MaxOps == 2
MaxOpsCodec == 3

\* ------------------------------------------------------ program constants
INTSIZE == 4
NO_MORE_RECORDS == -1
RECORDS_OFFSET == 4 * INTSIZE
MAGIC_BYTES == <<216, 253, 35, 114>>

\* the arguments the client passes: keys, and the recordsize and num_recs_hint
\* of IndexedFile(name, "c", ...); 1 and 4 are record sizes the constructor
\* raises to 2 * INTSIZE, 8 is one it takes as given
Keys == 1..MaxKey
RecordSizes == {1, 4, 8}
Hints == 1..MaxHint

\* ---------------------------------------------------------- byte helpers
Zeros(n) == [i \in 1..n |-> 0]

\* struct.pack("!L", v)
Pack(v) ==
  LET v1 == v \div 256
      v2 == v1 \div 256
      v3 == v2 \div 256
  IN  <<v3 % 256, v2 % 256, v1 % 256, v % 256>>

\* struct.unpack("!L", b)[0]
Unpack(b) ==
  LET hi == IF b[1] >= 128 THEN b[1] - 256 ELSE b[1]
  IN  ((hi * 256 + b[2]) * 256 + b[3]) * 256 + b[4]

\* fd.seek(off); fd.write(bytes): a write past the end zero-fills the gap
WriteAt(f, off, bytes) ==
  LET n == Len(bytes)
  IN  IF n = 0 THEN f
      ELSE IF off >= Len(f) THEN f \o Zeros(off - Len(f)) \o bytes
      ELSE SubSeq(f, 1, off) \o bytes \o SubSeq(f, off + n + 1, Len(f))

\* fd.seek(off); fd.read(n): short at the end of the file
ReadAt(f, off, n) ==
  LET last == IF off + n > Len(f) THEN Len(f) ELSE off + n
  IN  IF off >= Len(f) THEN <<>> ELSE SubSeq(f, off + 1, last)

\* fd.truncate(n)
Truncate(f, n) ==
  IF n <= Len(f) THEN SubSeq(f, 1, n) ELSE f \o Zeros(n - Len(f))

\* fd.seek(off); _readint(): struct.error when fewer than 4 bytes are left
CanReadInt(f, off) == off >= 0 /\ off + INTSIZE <= Len(f)
ReadInt(f, off) == Unpack(SubSeq(f, off + 1, off + INTSIZE))

\* pickle.dumps(key) / pickle.loads(keybytes): a protocol byte and the key
\* BadKey is a hashable key pickle.dumps raises PicklingError on.
BadKey == 0
Picklable(k) == k # BadKey
KeyBytes(k) == <<128, k>>
IsKeyBytes(b) == Len(b) = 2 /\ b[1] = 128 /\ b[2] \in Keys
LoadKey(b) == b[2]

\* the payload the client stores under key k when it stores L bytes
Payload(k, L) == [i \in 1..L |-> (100 * (k - 1) + 10 * L + i) % 256]

\* ---------------------------------------------------- the object's fields
\* A store is the IndexedFile object and its file:
\*   recordsize, current_size, index_offset, first_free, index (the dict in
\*   insertion order, a sequence of [key, idx, size]), file, and exc, the
\*   exception raised by the operation in progress ("ok" when none).
record_number(s, i) == i * s.recordsize + RECORDS_OFFSET

last_record(s) == record_number(s, (s.current_size \div s.recordsize) - 1)

\* a record number whose next-record word can be read from the file
Readable(s, i) ==
  /\ i >= 0
  /\ i <= Len(s.file)
  /\ CanReadInt(s.file, record_number(s, i))

Next_of(s, i) == ReadInt(s.file, record_number(s, i))

HasKey(idx, k) == \E j \in 1..Len(idx) : idx[j].key = k
PosOf(idx, k) == CHOOSE j \in 1..Len(idx) : idx[j].key = k
DelKey(idx, k) ==
  LET p == PosOf(idx, k)
  IN  [j \in 1..(Len(idx) - 1) |-> IF j < p THEN idx[j] ELSE idx[j + 1]]
PutKey(idx, k, first, size) ==
  IF HasKey(idx, k)
  THEN [idx EXCEPT ![PosOf(idx, k)] = [key |-> k, idx |-> first, size |-> size]]
  ELSE Append(idx, [key |-> k, idx |-> first, size |-> size])

_write_header(s) ==
  [s EXCEPT !.file = WriteAt(s.file, 0,
      MAGIC_BYTES \o Pack(s.recordsize) \o Pack(s.index_offset) \o Pack(s.first_free))]

\* the bytes the loop of _write_index writes: it stops, without the closing
\* zero, at the first key pickle.dumps raises on
RECURSIVE IndexBytes(_)
IndexBytes(idx) ==
  IF idx = <<>> THEN Pack(0)
  ELSE LET e == Head(idx)
       IN  IF ~Picklable(e.key) THEN <<>>
           ELSE Pack(Len(KeyBytes(e.key))) \o KeyBytes(e.key) \o Pack(e.idx)
                  \o Pack(e.size) \o IndexBytes(Tail(idx))

_write_index(s) ==
  [s EXCEPT !.file = WriteAt(s.file, s.index_offset, IndexBytes(s.index)),
            !.exc = IF \E j \in 1..Len(s.index) : ~Picklable(s.index[j].key)
                    THEN "PicklingError" ELSE s.exc]

RECURSIVE InitLoop(_, _, _)
InitLoop(s, rn, num_records) ==
  IF rn >= num_records THEN s
  ELSE InitLoop([s EXCEPT !.file = WriteAt(s.file, record_number(s, rn), Pack(rn + 1))],
                rn + 1, num_records)

init_free_list(s, start) ==
  LET t == InitLoop(s, start, s.current_size \div s.recordsize)
  IN  [t EXCEPT !.file = WriteAt(t.file, last_record(t), Pack(NO_MORE_RECORDS))]

\* ------------------------------------------------------- create and open
Blank(rs, cs, io) ==
  [recordsize |-> rs, current_size |-> cs, index_offset |-> io,
   first_free |-> 0, index |-> <<>>, file |-> <<>>, exc |-> "ok",
   ret |-> <<>>, grows |-> <<>>]

\* the fields of the object and its file, without the bookkeeping of a call
Obj(s) ==
  [recordsize |-> s.recordsize, current_size |-> s.current_size,
   index_offset |-> s.index_offset, first_free |-> s.first_free,
   index |-> s.index, file |-> s.file]

Raise(s, e) == [s EXCEPT !.exc = e]

Max(a, b) == IF a >= b THEN a ELSE b

\* IndexedFile(name, "c", recordsize, num_recs_hint): __init__ and create()
create(recordsize, num_recs_hint) ==
  LET cs == num_recs_hint * recordsize
      s0 == Blank(Max(recordsize, 2 * INTSIZE), cs, cs + RECORDS_OFFSET)
      s1 == [s0 EXCEPT !.file = Truncate(<<>>, s0.index_offset)]
      s2 == init_free_list(_write_header(s1), 0)
  IN  [s2 EXCEPT !.file = WriteAt(s2.file, Len(s2.file), Pack(0))]

RECURSIVE ReadIdx(_, _, _)
ReadIdx(f, off, idx) ==
  IF ~CanReadInt(f, off) THEN [exc |-> "struct.error", index |-> idx]
  ELSE
    LET keysize == ReadInt(f, off)
        n       == IF keysize < 0 \/ keysize > Len(f) THEN Len(f) ELSE keysize
        kb      == ReadAt(f, off + INTSIZE, n)
        p       == off + INTSIZE + Len(kb)
    IN  IF keysize = 0 THEN [exc |-> "ok", index |-> idx]
        ELSE IF ~IsKeyBytes(kb) THEN [exc |-> "UnpicklingError", index |-> idx]
        ELSE IF ~CanReadInt(f, p + INTSIZE) THEN [exc |-> "struct.error", index |-> idx]
        ELSE ReadIdx(f, p + 2 * INTSIZE,
                     PutKey(idx, LoadKey(kb), ReadInt(f, p), ReadInt(f, p + INTSIZE)))

_read_index(s) ==
  LET r == ReadIdx(s.file, s.index_offset, s.index)
  IN  [s EXCEPT !.index = r.index, !.exc = r.exc]

_read_header(s) ==
  IF Len(s.file) < 4 * INTSIZE THEN Raise(s, "struct.error")
  ELSE IF SubSeq(s.file, 1, INTSIZE) # MAGIC_BYTES THEN Raise(s, "IndexedFileError")
  ELSE [s EXCEPT !.recordsize   = ReadInt(s.file, INTSIZE),
                 !.index_offset = ReadInt(s.file, 2 * INTSIZE),
                 !.first_free   = ReadInt(s.file, 3 * INTSIZE),
                 !.current_size = ReadInt(s.file, 2 * INTSIZE) - RECORDS_OFFSET]

\* IndexedFile(name, "r"): __init__ and open() on the bytes f of the file
open(f) ==
  LET h == _read_header([Blank(0, 0, 0) EXCEPT !.file = f])
  IN  IF h.exc # "ok" THEN h ELSE _read_index(h)

close(s) == _write_index(s)

\* ---------------------------------------------------------------- chains
\* last_in_chain(start) over record_list(start); a chain that returns to a
\* record already visited never ends ("hang")
RECURSIVE LastWalk(_, _, _)
LastWalk(s, idx, seen) ==
  IF ~Readable(s, idx) THEN [exc |-> "struct.error", idx |-> idx]
  ELSE LET nx == Next_of(s, idx)
       IN  IF nx = NO_MORE_RECORDS THEN [exc |-> "ok", idx |-> idx]
           ELSE IF nx \in seen \cup {idx} THEN [exc |-> "hang", idx |-> idx]
           ELSE LastWalk(s, nx, seen \cup {idx})

last_in_chain(s, start) == LastWalk(s, start, {})

\* retrieve(start) as consumed by __getitem__: the chunks concatenated
RECURSIVE Retrieve(_, _, _, _)
Retrieve(s, idx, seen, buf) ==
  IF idx = NO_MORE_RECORDS THEN [exc |-> "ok", val |-> buf]
  ELSE IF ~Readable(s, idx) THEN [exc |-> "struct.error", val |-> buf]
  ELSE IF idx \in seen THEN [exc |-> "hang", val |-> buf]
  ELSE Retrieve(s, Next_of(s, idx), seen \cup {idx},
                buf \o ReadAt(s.file, record_number(s, idx) + INTSIZE,
                              s.recordsize - INTSIZE))

__contains__(s, key) == HasKey(s.index, key)

__getitem__(s, key) ==
  IF ~HasKey(s.index, key) THEN [exc |-> "KeyError", val |-> <<>>]
  ELSE LET e == s.index[PosOf(s.index, key)]
           r == Retrieve(s, e.idx, {}, <<>>)
       IN  [exc |-> r.exc,
            val |-> IF e.size < 0 \/ e.size >= Len(r.val) THEN r.val
                    ELSE SubSeq(r.val, 1, e.size)]

\* ------------------------------------------------------------- allocator
RECURSIVE AllocWalk(_, _, _, _)
AllocWalk(s, recnum, indices, numrecords) ==
  IF Len(indices) >= numrecords \/ recnum = NO_MORE_RECORDS
  THEN [exc |-> "ok", indices |-> indices]
  ELSE IF ~Readable(s, recnum)
  THEN [exc |-> "struct.error", indices |-> Append(indices, recnum)]
  ELSE AllocWalk(s, Next_of(s, recnum), Append(indices, recnum), numrecords)

\* an _allocate_records that forgets to end the allocated chain with the sentinel
allocate_records_unterminated(s, numrecords) ==
  LET w == AllocWalk(s, s.first_free, <<>>, numrecords)
  IN  IF w.exc # "ok" THEN Raise(s, w.exc)
      ELSE IF Len(w.indices) < numrecords THEN Raise(s, "Out of space")
      ELSE
        LET last == w.indices[Len(w.indices)]
            s1 == [s EXCEPT !.first_free = Next_of(s, last)]
        IN  [_write_header(s1) EXCEPT !.ret = w.indices]

_allocate_records(s, numrecords) ==
  LET w == AllocWalk(s, s.first_free, <<>>, numrecords)
  IN  IF w.exc # "ok" THEN Raise(s, w.exc)
      ELSE IF Len(w.indices) < numrecords THEN Raise(s, "Out of space")
      ELSE
        LET last == w.indices[Len(w.indices)]
            new_first_free == Next_of(s, last)
            s1 == [s EXCEPT !.file = WriteAt(s.file, record_number(s, last),
                                             Pack(NO_MORE_RECORDS)),
                            !.first_free = new_first_free]
        IN  [_write_header(s1) EXCEPT !.ret = w.indices]

\* the last two statements of resize: _write_header is not reached when
\* _write_index raises
resize_flush(s) ==
  LET w == _write_index(s)
  IN  IF w.exc # "ok" THEN w ELSE _write_header(w)

resize(s) ==
  LET num_records == s.current_size \div s.recordsize
      new_size == 2 * s.current_size
      first_new_record == num_records
      s1 == [s EXCEPT !.index_offset = new_size + RECORDS_OFFSET,
                      !.file = Truncate(s.file, new_size + RECORDS_OFFSET),
                      !.current_size = new_size]
      s2 == init_free_list(s1, first_new_record)
      t  == last_in_chain(s2, s2.first_free)
  IN  IF s2.first_free # NO_MORE_RECORDS
      THEN IF t.exc # "ok" THEN Raise(s2, t.exc)
           ELSE resize_flush(
                  [s2 EXCEPT !.file = WriteAt(s2.file, record_number(s2, t.idx),
                                              Pack(first_new_record))])
      ELSE resize_flush([s2 EXCEPT !.first_free = first_new_record])

\* allocate(numrecords); grows collects the object before and after each resize
RECURSIVE allocate(_, _)
allocate(s, numrecords) ==
  LET r == _allocate_records(s, numrecords)
      g == resize(s)
  IN  IF r.exc # "Out of space" THEN r
      ELSE IF g.exc # "ok" THEN g
      ELSE allocate([g EXCEPT !.grows = Append(s.grows, <<Obj(s), Obj(g)>>)],
                    numrecords)

\* ------------------------------------------------------ delete and insert
\* a __delitem__ that swallows the missing key instead of raising KeyError
delitem_silent(s, key) ==
  IF ~HasKey(s.index, key) THEN s
  ELSE
    LET first_record == s.index[PosOf(s.index, key)].idx
        s1 == _write_index([s EXCEPT !.index = DelKey(s.index, key)])
        t  == last_in_chain(s1, first_record)
    IN  IF s1.exc # "ok" THEN s1
        ELSE IF t.exc # "ok" THEN Raise(s1, t.exc)
        ELSE _write_header(
               [s1 EXCEPT !.file = WriteAt(s1.file, record_number(s1, t.idx),
                                           Pack(s1.first_free)),
                          !.first_free = first_record])

__delitem__(s, key) ==
  IF ~HasKey(s.index, key) THEN Raise(s, "KeyError")
  ELSE
    LET first_record == s.index[PosOf(s.index, key)].idx
        s1 == _write_index([s EXCEPT !.index = DelKey(s.index, key)])
        t  == last_in_chain(s1, first_record)
    IN  IF s1.exc # "ok" THEN s1
        ELSE IF t.exc # "ok" THEN Raise(s1, t.exc)
        ELSE _write_header(
               [s1 EXCEPT !.file = WriteAt(s1.file, record_number(s1, t.idx),
                                           Pack(s1.first_free)),
                          !.first_free = first_record])

RecordsNeeded(s, datasize) == datasize \div (s.recordsize - INTSIZE) + 1

\* the loop of __setitem__ writing bytesval into the records of free_list
RECURSIVE WriteChunks(_, _, _, _)
WriteChunks(s, free_list, bytesval, start) ==
  IF free_list = <<>> THEN s
  ELSE
    LET usable_rec_size == s.recordsize - INTSIZE
        chunk == IF start >= Len(bytesval) THEN <<>>
                 ELSE ReadAt(bytesval, start, usable_rec_size)
    IN  WriteChunks(
          [s EXCEPT !.file = WriteAt(s.file,
                        record_number(s, Head(free_list)) + INTSIZE, chunk)],
          Tail(free_list), bytesval, start + usable_rec_size)

__setitem__(s, key, bytesval) ==
  LET d == IF HasKey(s.index, key) THEN __delitem__(s, key) ELSE s
      a == allocate(d, RecordsNeeded(d, Len(bytesval)))
      w == WriteChunks(a, a.ret, bytesval, 0)
  IN  IF d.exc # "ok" THEN d
      ELSE IF a.exc # "ok" THEN a
      ELSE _write_index([w EXCEPT !.index =
                           PutKey(w.index, key, a.ret[1], Len(bytesval))])

\* -------------------------------------------------------- the state machine
VARIABLES recordsize, current_size, index_offset, first_free, index, file,
          fd, nops, limit, last, prev

vars == <<recordsize, current_size, index_offset, first_free, index, file,
          fd, nops, limit, last, prev>>

\* the object as the operators above take it, at the start of a call
Self ==
  [recordsize |-> recordsize, current_size |-> current_size,
   index_offset |-> index_offset, first_free |-> first_free,
   index |-> index, file |-> file, exc |-> "ok", ret |-> <<>>, grows |-> <<>>]

Becomes(s) ==
  /\ recordsize' = s.recordsize
  /\ current_size' = s.current_size
  /\ index_offset' = s.index_offset
  /\ first_free' = s.first_free
  /\ index' = s.index
  /\ file' = s.file

\* last: what the last call was, what it was given, what came back and the
\* object it was made on; prev: the same of the call before it
Call(op, key, val, s, ret) ==
  [op |-> op, key |-> key, val |-> val, exc |-> s.exc, ret |-> ret,
   grows |-> s.grows, pre |-> Obj(Self)]

\* the object a client has just constructed with mode "c"
Created ==
  \E rs \in RecordSizes, hint \in Hints :
    LET s == create(rs, hint)
    IN  /\ recordsize = s.recordsize
        /\ current_size = s.current_size
        /\ index_offset = s.index_offset
        /\ first_free = s.first_free
        /\ index = s.index
        /\ file = s.file
        /\ fd = "open"
        /\ nops = 0
        /\ last = [op |-> "create", key |-> rs, val |-> <<>>, exc |-> "ok",
                   ret |-> <<hint>>, grows |-> <<>>, pre |-> Obj(s)]
        /\ prev = last

\* limit: the number of calls the client goes on to make
Init == Created /\ limit = MaxOps

\* a call that never returns leaves nothing more to do
After(s) == IF s.exc = "hang" THEN "hung" ELSE "open"

SetItem(k, L) ==
  /\ fd = "open" /\ nops < limit
  /\ LET s == __setitem__(Self, k, Payload(k, L))
     IN  /\ Becomes(s)
         /\ fd' = After(s)
         /\ last' = Call("set", k, Payload(k, L), s, s.ret)
  /\ nops' = nops + 1
  /\ limit' = limit
  /\ prev' = last

DelItem(k) ==
  /\ fd = "open" /\ nops < limit
  /\ LET s == __delitem__(Self, k)
     IN  /\ Becomes(s)
         /\ fd' = After(s)
         /\ last' = Call("del", k, <<>>, s, <<>>)
  /\ nops' = nops + 1
  /\ limit' = limit
  /\ prev' = last

GetItem(k) ==
  /\ fd = "open" /\ nops < limit
  /\ LET r == __getitem__(Self, k)
     IN  /\ fd' = After(r)
         /\ last' = Call("get", k, <<>>, [Self EXCEPT !.exc = r.exc], r.val)
  /\ nops' = nops + 1
  /\ limit' = limit
  /\ prev' = last
  /\ UNCHANGED <<recordsize, current_size, index_offset, first_free, index, file>>

\* close(): fd.close() is not reached when _write_index raises
Close ==
  /\ fd = "open" /\ nops < limit
  /\ LET s == close(Self)
     IN  /\ Becomes(s)
         /\ fd' = IF s.exc = "ok" THEN "closed" ELSE "open"
         /\ last' = Call("close", 0, <<>>, s, <<>>)
  /\ nops' = nops + 1
  /\ limit' = limit
  /\ prev' = last

\* IndexedFile(name, "r") on the closed file; a constructor that raises
\* leaves no object
Open ==
  /\ fd = "closed" /\ nops < limit
  /\ LET s == open(file)
     IN  /\ IF s.exc = "ok" THEN Becomes(s) /\ fd' = "open"
            ELSE /\ fd' = "failed"
                 /\ UNCHANGED <<recordsize, current_size, index_offset,
                                first_free, index, file>>
         /\ last' = Call("open", 0, <<>>, s, <<>>)
  /\ nops' = nops + 1
  /\ limit' = limit
  /\ prev' = last

Next ==
  \/ \E k \in Keys, L \in 0..MaxLen : SetItem(k, L)
  \/ \E k \in Keys : DelItem(k)
  \/ \E k \in Keys : GetItem(k)
  \/ Close
  \/ Open

Spec == Init /\ [][Next]_vars

\* A second specification: stores created with a record size the constructor
\* does not have to clamp (recordsize >= 2 * INTSIZE)
InitAligned == Init /\ last.key >= 2 * INTSIZE

SpecAligned == InitAligned /\ [][Next]_vars

\* A third specification: the client also uses a key the codec rejects
NextCodec ==
  \/ Next
  \/ \E L \in 0..MaxLen : SetItem(BadKey, L)
  \/ DelItem(BadKey)
  \/ GetItem(BadKey)

InitCodec == Created /\ last.key >= 2 * INTSIZE /\ limit = MaxOpsCodec

SpecCodec == InitCodec /\ [][NextCodec]_vars

\* ------------------------------------------------- reading the structures
Range(q) == {q[i] : i \in 1..Len(q)}

RECURSIVE SumSeq(_)
SumSeq(q) == IF q = <<>> THEN 0 ELSE Head(q) + SumSeq(Tail(q))

\* number of slots of the record area, from the header fields
NumSlots(s) == (s.index_offset - RECORDS_OFFSET) \div s.recordsize

\* the slots of the chain that starts at idx, in order; ok when the walk ends
\* at the sentinel without reading past the file or meeting a slot twice
RECURSIVE ChainWalk(_, _, _)
ChainWalk(s, idx, acc) ==
  IF idx = NO_MORE_RECORDS THEN [slots |-> acc, ok |-> TRUE]
  ELSE IF idx \in Range(acc) \/ ~Readable(s, idx) THEN [slots |-> acc, ok |-> FALSE]
  ELSE ChainWalk(s, Next_of(s, idx), Append(acc, idx))

Chain(s, head) == ChainWalk(s, head, <<>>)
FreeList(s) == Chain(s, s.first_free)
DataChains(s) == [j \in 1..Len(s.index) |-> Chain(s, s.index[j].idx)]
KeysOf(s) == [j \in 1..Len(s.index) |-> s.index[j].key]
ChainOfKey(s, k) == Chain(s, s.index[PosOf(s.index, k)].idx)

\* the object exists and no call on it is hanging
Quiescent == fd \in {"open", "closed"}

\* ------------------------------------------------------------------ claims

\* C1: set(k, b) followed immediately by get(k) returns exactly b, for every
\* key and payload and in every reachable state of the store.
RoundTrip ==
  (last.op = "set") =>
     /\ last.exc = "ok"
     /\ __getitem__(Self, last.key) = [exc |-> "ok", val |-> last.val]

\* C2: between public operations every slot of the record area is reachable
\* from exactly one of the free-list head or one index entry's chain head;
\* every chain is acyclic, stays within [0, num_slots) and ends at the sentinel.
ChainsPartitionSlots ==
  Quiescent =>
    LET free   == FreeList(Self)
        chains == DataChains(Self)
        all    == <<free>> \o chains
        slots  == 0..(NumSlots(Self) - 1)
    IN  /\ \A c \in 1..Len(all) : all[c].ok /\ Range(all[c].slots) \subseteq slots
        /\ \A n \in slots :
             Cardinality({c \in 1..Len(all) : n \in Range(all[c].slots)}) = 1

\* C3: at every quiescent point the length of the free list plus the sum of
\* the chain lengths of all index entries equals num_slots.
AllocatorConservation ==
  Quiescent =>
    LET free   == FreeList(Self)
        chains == DataChains(Self)
    IN  /\ free.ok
        /\ \A j \in 1..Len(chains) : chains[j].ok
        /\ Len(free.slots)
             + SumSeq([j \in 1..Len(chains) |-> Len(chains[j].slots)])
           = NumSlots(Self)

\* max(1, ceil(L / u)) for usable slot capacity u = slot_size - pointer width
SlotsNeeded(s, L) ==
  LET u == s.recordsize - INTSIZE
  IN  IF L = 0 THEN 1 ELSE (L + u - 1) \div u

\* C4: set(k, b1) then set(k, b2) leaves get(k) = b2 with exactly one index
\* entry for k; the slots that held b1 are free again or reused by b2, and
\* when neither set grew the file the free-slot count is the count before the
\* first set minus the number of slots needed for b2.
Overwrite ==
  (last.op = "set" /\ prev.op = "set" /\ prev.key = last.key /\ prev.exc = "ok") =>
     /\ last.exc = "ok"
     /\ __getitem__(Self, last.key) = [exc |-> "ok", val |-> last.val]
     /\ Cardinality({j \in 1..Len(index) : index[j].key = last.key}) = 1
     /\ Range(ChainOfKey(last.pre, last.key).slots)
          \subseteq Range(FreeList(Self).slots) \cup Range(ChainOfKey(Self, last.key).slots)
     /\ (prev.grows = <<>> /\ last.grows = <<>>) =>
          Len(FreeList(Self).slots)
            = Len(FreeList(prev.pre).slots) - SlotsNeeded(Self, Len(last.val))

\* C5: closing and opening the file again in mode "r" gives the same keys in
\* the same order, the same get(k) for every key, and the same slot_size,
\* index_offset and free_head as the object had in memory before close.
Reopen ==
  (last.op = "open") =>
     /\ last.exc = "ok"
     /\ KeysOf(Self) = KeysOf(last.pre)
     /\ \A k \in Keys : __getitem__(Self, k) = __getitem__(last.pre, k)
     /\ recordsize = last.pre.recordsize
     /\ index_offset = last.pre.index_offset
     /\ first_free = last.pre.first_free

\* C6: after delete(k) of a present key, contains(k) is false, get(k) fails
\* with the key-not-found error, k is not among keys(), and every slot of the
\* former chain of k is on the free list.
Deletion ==
  (last.op = "del" /\ HasKey(last.pre.index, last.key)) =>
     /\ last.exc = "ok"
     /\ ~__contains__(Self, last.key)
     /\ __getitem__(Self, last.key).exc = "KeyError"
     /\ last.key \notin Range(KeysOf(Self))
     /\ Range(ChainOfKey(last.pre, last.key).slots) \subseteq Range(FreeList(Self).slots)

\* the bytes of slot n (next-record word and payload)
SlotBytes(s, n) == ReadAt(s.file, record_number(s, n), s.recordsize)

\* C7: every grow doubles num_slots exactly, num_slots never decreases under
\* any operation, and after a grow every pre-existing entry is retrievable
\* with its payload and the slots of its chain unchanged.
Growth ==
  /\ \A i \in 1..Len(last.grows) :
       LET a == last.grows[i][1]
           b == last.grows[i][2]
       IN  /\ NumSlots(b) = 2 * NumSlots(a)
           /\ b.index = a.index
           /\ \A j \in 1..Len(a.index) :
                /\ __getitem__(b, a.index[j].key) = __getitem__(a, a.index[j].key)
                /\ __getitem__(b, a.index[j].key).exc = "ok"
                /\ \A n \in Range(Chain(a, a.index[j].idx).slots) :
                     SlotBytes(b, n) = SlotBytes(a, n)
  /\ Quiescent => NumSlots(Self) >= NumSlots(last.pre)

\* C8: in every reachable state index_offset = records_offset + num_slots *
\* slot_size, for the stored record size and the number of slots the engine
\* addresses, whatever slot_size >= 1 and initial_slot_hint >= 1 it was made with.
LayoutInvariant ==
  Quiescent =>
    index_offset = RECORDS_OFFSET + (current_size \div recordsize) * recordsize

\* C9: set(key, bytes) with a payload of length L allocates exactly
\* max(1, ceil(L / u)) slots for the new chain.
SlotCountOfSet ==
  (last.op = "set" /\ last.exc = "ok") =>
     /\ Len(last.ret) = SlotsNeeded(Self, Len(last.val))
     /\ Len(ChainOfKey(Self, last.key).slots) = SlotsNeeded(Self, Len(last.val))

\* C10: allocate(n) always terminates and returns n slots: a set of a new
\* key raises nothing, gets as many distinct slots as it asked for, and each
\* grow on the way added at least one free slot.
AllocationSucceeds ==
  (last.op = "set" /\ ~HasKey(last.pre.index, last.key)) =>
     /\ last.exc = "ok"
     /\ Len(last.ret) = RecordsNeeded(Self, Len(last.val))
     /\ Cardinality(Range(last.ret)) = Len(last.ret)
     /\ \A i \in 1..Len(last.grows) :
          Len(FreeList(last.grows[i][2]).slots)
            >= Len(FreeList(last.grows[i][1]).slots) + 1

\* C11: get(k) and delete(k) of a key that is not in the index fail with the
\* key-not-found error and leave the in-memory index, free_head, index_offset
\* and every byte of the file (slots, on-disk index and header) as they were.
AbsentKeyUntouched ==
  (last.op \in {"get", "del"} /\ ~HasKey(last.pre.index, last.key)) =>
     /\ last.exc = "KeyError"
     /\ Obj(Self) = last.pre

\* a delete of an absent key on a store that holds another key
AbsentKeyWitness ==
  /\ last.op = "del"
  /\ ~HasKey(last.pre.index, last.key)
  /\ last.pre.index # <<>>
  /\ last.exc = "KeyError"

\* the header as _write_header lays it out for the fields of s
HeaderBytes(s) ==
  MAGIC_BYTES \o Pack(s.recordsize) \o Pack(s.index_offset) \o Pack(s.first_free)

\* C12: right after create(path, slot_size, initial_slot_hint), for every
\* slot_size >= 1 and hint >= 1, the index is empty (terminator only),
\* free_head is 0, the free list is exactly slots 0 .. hint-1 in ascending
\* order ending in the sentinel, and the header on disk still holds the
\* fields written before the free list was initialised.
CreatePostcondition ==
  (last.op = "create") =>
     /\ index = <<>>
     /\ ReadAt(file, index_offset, Len(file)) = Pack(0)
     /\ first_free = 0
     /\ FreeList(Self) = [slots |-> [i \in 1..last.ret[1] |-> i - 1], ok |-> TRUE]
     /\ SubSeq(file, 1, 4 * INTSIZE) = HeaderBytes(Self)

\* an object taken as the store of a call that starts on it
AsStore(o) ==
  [recordsize |-> o.recordsize, current_size |-> o.current_size,
   index_offset |-> o.index_offset, first_free |-> o.first_free,
   index |-> o.index, file |-> o.file, exc |-> "ok", ret |-> <<>>, grows |-> <<>>]

\* the store on which the last set called allocate: the object the set was
\* made on, after the release of the key's old chain when it had one
AtAllocate ==
  IF HasKey(last.pre.index, last.key)
  THEN __delitem__(AsStore(last.pre), last.key)
  ELSE AsStore(last.pre)

\* C13: when the free list holds at least n slots, allocate(n) returns the
\* first n slots of the free chain in chain order, leaves them linked in that
\* order with the sentinel in the last one, moves free_head to the slot that
\* followed (the sentinel when there was none), keeps the order of the other
\* free slots, does not grow the file, and persists the header.
AllocateResult ==
  (last.op = "set" /\ AtAllocate.exc = "ok") =>
     LET s0 == AtAllocate
         n  == RecordsNeeded(s0, Len(last.val))
         fl == FreeList(s0)
         a  == allocate(s0, n)
     IN  (fl.ok /\ Len(fl.slots) >= n) =>
            /\ a.exc = "ok"
            /\ a.ret = SubSeq(fl.slots, 1, n)
            /\ last.ret = a.ret
            /\ Chain(a, a.ret[1]) = [slots |-> a.ret, ok |-> TRUE]
            /\ a.first_free = IF Len(fl.slots) = n THEN NO_MORE_RECORDS
                              ELSE fl.slots[n + 1]
            /\ FreeList(a) = [slots |-> SubSeq(fl.slots, n + 1, Len(fl.slots)),
                              ok |-> TRUE]
            /\ a.grows = <<>>
            /\ a.current_size = s0.current_size
            /\ SubSeq(a.file, 1, 4 * INTSIZE) = HeaderBytes(a)

\* a set that took two slots out of a free list of at least three
AllocateWitness ==
  /\ last.op = "set"
  /\ last.exc = "ok"
  /\ AtAllocate.exc = "ok"
  /\ Len(last.ret) = 2
  /\ FreeList(AtAllocate).ok
  /\ Len(FreeList(AtAllocate).slots) >= 3
  /\ last.grows = <<>>

\* the slots of the record area of s together with the slots of chain c
SlotsWith(s, c) == (0..(NumSlots(s) - 1)) \cup Range(c)

\* C14: delete(k) of an entry whose chain is c1 -> ... -> cm prepends the
\* whole chain to the free list: free_head becomes c1, the next-pointer of cm
\* becomes the free_head of before, every other next-pointer (of c1..c(m-1)
\* and of the slots outside the chain) is unchanged, the header is persisted,
\* and the next allocate(n) with n <= m returns c1..cn.
ReleaseOnDelete ==
  (last.op = "del" /\ HasKey(last.pre.index, last.key)
     /\ ChainOfKey(last.pre, last.key).ok) =>
     LET c == ChainOfKey(last.pre, last.key).slots
         m == Len(c)
     IN  /\ last.exc = "ok"
         /\ first_free = c[1]
         /\ Next_of(Self, c[m]) = last.pre.first_free
         /\ \A n \in SlotsWith(last.pre, c) \ {c[m]} :
              Readable(Self, n) /\ Next_of(Self, n) = Next_of(last.pre, n)
         /\ SubSeq(file, 1, 4 * INTSIZE) = HeaderBytes(Self)
         /\ \A n \in 1..m :
              LET a == allocate(Self, n)
              IN  a.exc = "ok" /\ a.ret = SubSeq(c, 1, n) /\ a.grows = <<>>

\* resize up to the point where the new records are linked into the free
\* list, before the index and the header are written
resize_linked(s) ==
  LET num_records == s.current_size \div s.recordsize
      new_size == 2 * s.current_size
      s1 == [s EXCEPT !.index_offset = new_size + RECORDS_OFFSET,
                      !.file = Truncate(s.file, new_size + RECORDS_OFFSET),
                      !.current_size = new_size]
      s2 == init_free_list(s1, num_records)
      t  == last_in_chain(s2, s2.first_free)
  IN  IF s2.first_free # NO_MORE_RECORDS
      THEN IF t.exc # "ok" THEN Raise(s2, t.exc)
           ELSE [s2 EXCEPT !.file = WriteAt(s2.file, record_number(s2, t.idx),
                                            Pack(num_records))]
      ELSE [s2 EXCEPT !.first_free = num_records]

\* C15: a grow with old slot count N links the new slots N .. 2N-1 in
\* ascending order with the sentinel in slot 2N-1; a non-empty free list keeps
\* its head and order and its tail now points to N, an empty one gets head N;
\* and the index is written at the new index_offset before the header that
\* carries the new index_offset and free_head.
GrowSteps ==
  \A i \in 1..Len(last.grows) :
    LET a   == last.grows[i][1]
        b   == last.grows[i][2]
        N   == NumSlots(a)
        fa  == FreeList(a).slots
        new == [j \in 1..N |-> N + j - 1]
        x   == resize_linked(AsStore(a))
        mid == _write_index(x)
    IN  /\ \A n \in N..(2 * N - 2) : Next_of(b, n) = n + 1
        /\ Readable(b, 2 * N - 1) /\ Next_of(b, 2 * N - 1) = NO_MORE_RECORDS
        /\ IF fa # <<>>
           THEN /\ b.first_free = a.first_free
                /\ Next_of(b, fa[Len(fa)]) = N
                /\ FreeList(b) = [slots |-> fa \o new, ok |-> TRUE]
           ELSE /\ b.first_free = N
                /\ FreeList(b) = [slots |-> new, ok |-> TRUE]
        /\ SubSeq(mid.file, 1, 4 * INTSIZE) = HeaderBytes(a)
        /\ ReadIdx(mid.file, b.index_offset, <<>>) = [exc |-> "ok", index |-> a.index]
        /\ b = Obj(_write_header(mid))
        /\ SubSeq(b.file, 1, 4 * INTSIZE) = HeaderBytes(b)

\* C16: a set that needs r slots grows the file if and only if the free list
\* holds fewer than r slots at allocation time (the old chain of an
\* overwritten key already released); an overwrite that needs no more slots
\* than the old chain never grows; and grow is repeated exactly until the
\* free list holds at least r slots.
GrowOnlyWhenNeeded ==
  (last.op = "set" /\ last.exc = "ok" /\ AtAllocate.exc = "ok") =>
     LET s0 == AtAllocate
         r  == RecordsNeeded(s0, Len(last.val))
         g  == last.grows
     IN  /\ (g # <<>>) <=> (Len(FreeList(s0).slots) < r)
         /\ \A i \in 1..Len(g) : Len(FreeList(g[i][1]).slots) < r
         /\ (g # <<>>) => Len(FreeList(g[Len(g)][2]).slots) >= r
         /\ (HasKey(last.pre.index, last.key)
               /\ r <= Len(ChainOfKey(last.pre, last.key).slots)) => g = <<>>

\* the stores __delitem__ passes through, one after each statement: the entry
\* removed from the dict, the index rewritten, the tail of the chain pointed
\* at the old first_free, first_free set to the chain head, the header written
DelSteps(s, key) ==
  LET first_record == s.index[PosOf(s.index, key)].idx
      s1 == [s EXCEPT !.index = DelKey(s.index, key)]
      s2 == _write_index(s1)
      t  == last_in_chain(s2, first_record)
      s3 == [s2 EXCEPT !.file = WriteAt(s2.file, record_number(s2, t.idx),
                                        Pack(s2.first_free))]
      s4 == [s3 EXCEPT !.first_free = first_record]
      s5 == _write_header(s4)
  IN  IF s2.exc # "ok" THEN <<s1, s2>>
      ELSE IF t.exc # "ok" THEN <<s1, s2, Raise(s2, t.exc)>>
      ELSE <<s1, s2, s3, s4, s5>>

\* what a reader of the file sees: no slot reachable from the free_head of the
\* header on disk is reachable from a chain head of the index on disk
DiskDisjoint(f) ==
  LET d == open(f)
  IN  /\ d.exc = "ok"
      /\ \A j \in 1..Len(d.index) :
           Range(FreeList(d).slots) \cap Range(Chain(d, d.index[j].idx).slots) = {}

\* C17: delete(k) removes the entry from the in-memory index, then rewrites
\* the on-disk index, and only then links the chain into the free list and
\* persists the header; at every intermediate step no slot reachable from the
\* on-disk free_head is reachable from a chain head of the on-disk index.
DeleteOrdering ==
  (last.op = "del" /\ HasKey(last.pre.index, last.key)) =>
     LET st == DelSteps(AsStore(last.pre), last.key)
     IN  /\ Len(st) = 5
         /\ Obj(st[Len(st)]) = Obj(Self)
         /\ \A i \in 1..Len(st) : DiskDisjoint(st[i].file)
         /\ ~HasKey(st[1].index, last.key)
         /\ HasKey(open(st[1].file).index, last.key)
         /\ ~HasKey(open(st[2].file).index, last.key)
         /\ FreeList(open(st[2].file)) = FreeList(last.pre)
         /\ open(st[4].file).first_free = last.pre.first_free
         /\ open(st[5].file).first_free = first_free

\* C19: for distinct keys k and k2 with k2 present, no set(k, b), overwrite
\* of k or delete(k), growing or reusing released slots or not, changes the
\* result of get(k2) or removes k2 from the index.
KeyIsolation ==
  (last.op \in {"set", "del"}) =>
     \A k2 \in Keys \ {last.key} :
        HasKey(last.pre.index, k2) =>
           /\ HasKey(index, k2)
           /\ __getitem__(Self, k2) = __getitem__(AsStore(last.pre), k2)

\* free slots plus the slots of the chains of the index make up the record area
Conservation(s) ==
  LET free   == FreeList(s)
      chains == DataChains(s)
  IN  /\ free.ok
      /\ \A j \in 1..Len(chains) : chains[j].ok
      /\ Len(free.slots) + SumSeq([j \in 1..Len(chains) |-> Len(chains[j].slots)])
           = NumSlots(s)

\* C18: when set(key, bytes) fails because the key codec rejects the key, the
\* error reaches the caller and the store is as before the call: the
\* in-memory index does not contain the key, free_head and the length of the
\* free list are unchanged, conservation holds and a close() that follows
\* succeeds.
FailedSetUnchanged ==
  (last.op = "set" /\ ~Picklable(last.key)) =>
     /\ last.exc = "PicklingError"
     /\ ~HasKey(index, last.key)
     /\ first_free = last.pre.first_free
     /\ Len(FreeList(Self).slots) = Len(FreeList(last.pre).slots)
     /\ Conservation(Self)
     /\ close(Self).exc = "ok"

====
